---------------------------- MODULE Spec2Model ----------------------------
(***************************************************************************)
(* The i8042 PS/2 controller driver of src/src/drivers/i8042.rs as a state *)
(* machine.  One step of the machine is one access to an I/O port (a write *)
(* to the command register 0x64, a read of the status register 0x64, a     *)
(* read or a write of the data register 0x60) together with the driver's   *)
(* own computation up to its next port access.  The controller and the     *)
(* devices behind the ports are a mock that may answer every read with any *)
(* value (Spec), or a controller with its configuration byte, its output   *)
(* buffer and a device on each channel (DeviceSpec).                       *)
(*                                                                         *)
(* pc is the line of I8042::init whose call is executing ("L78" is line    *)
(* 78), ip the position inside the called function, io the position inside *)
(* the port primitive (try_read, read, write): "poll" before the status    *)
(* register is read, "xfer" between the status read and the data access.   *)
(***************************************************************************)
EXTENDS Integers, Sequences, FiniteSets, TLC

VARIABLES
    fadt,             \* fox_acpi::FADT: the platform table, or not initialised
    probe_ret,        \* the Result that I8042::probe returned
    pc, ip, io,       \* control position (see above)
    count,            \* the miss counter of PortDataPort::read / ::write
    panic_msg,        \* the message of the panic that ended the run
    port1, port2,     \* I8042.port1, I8042.port2 : Option<DeviceType>
    is_exists_port2,  \* I8042.is_exists_port2
    config,           \* I8042.config : ControllerConfigurationByte
    wlog,             \* every byte written to a port, in order
    prev, last,       \* the last two port accesses
    polls,            \* status reads made by the port primitive in progress
    rx,               \* the bytes returned to each controller operation
    ctl,              \* the controller and the devices behind the ports
    dev,              \* the exchange of the latest get_dev_type call
    codec             \* the register codec exercised on its own (CodecSpec)

vars == <<fadt, probe_ret, pc, ip, io, count, panic_msg, port1, port2,
          is_exists_port2, config, wlog, prev, last, polls, rx, dev, codec,
          ctl>>

-----------------------------------------------------------------------------
(* Ports and command bytes *)

DataPort == 96
CommandPort == 100
StatusPort == 100

ReadByte0 == 32
WriteByte0 == 96
DisablePort2 == 167
EnablePort2 == 168
TestPort2 == 169
TestController == 170
TestPort1 == 171
DisablePort1 == 173
EnablePort1 == 174
WriteByteInputPort2 == 212

Identify == 242
DisableScanning == 245
Reset == 255

\* the literal 10 of `if count > 10` in PortDataPort::read and ::write
ReadRetryLimit == 10
WriteRetryLimit == 10

Byte == 0 .. 255

\* The bytes the mock answers a data read with: every byte the driver
\* compares a reply against (0x00, 0x01, 0x55, 0x83, 0xAA, 0xAB, 0xFA, 0xFC)
\* and one it compares against nowhere (0x3B).
ReplyBytes == {0, 1, 59, 85, 131, 170, 171, 250, 252}

\* The values the mock answers a status read with are 0 .. MaxStatus: bits 0
\* and 1 in every combination (no other bit is inspected during
\* initialization).
MaxStatus == 3

StatusBytes == 0 .. MaxStatus

Unread == -1
NoByte == -2

-----------------------------------------------------------------------------
(* bit_field::BitField on u8 *)

get_bit(x, bit) == (x \div (2 ^ bit)) % 2 = 1

set_bit(x, bit, value) ==
    IF value
    THEN IF get_bit(x, bit) THEN x ELSE x + 2 ^ bit
    ELSE IF get_bit(x, bit) THEN x - 2 ^ bit ELSE x

(* dto::StatusRegister *)

output_buffer_is_full_bit1(s) == get_bit(s, 1)

output_buffer_is_full(s) == get_bit(s, 0)

input_buffer_is_full(s) == get_bit(s, 1)

(* dto::ControllerConfigurationByte *)

is_enable_interrupt1(c) == get_bit(c, 0)
is_enable_interrupt2(c) == get_bit(c, 1)
system_flag_bit3(c) == get_bit(c, 3)

system_flag(c) == get_bit(c, 2)
is_disabled_clock1(c) == get_bit(c, 4)

is_disabled_clock2_negated(c) == ~get_bit(c, 5)

is_disabled_clock2_bit4(c) == get_bit(c, 4)

is_disabled_clock2(c) == get_bit(c, 5)
is_enabled_translation1(c) == get_bit(c, 6)

set_is_enable_interrupt1(c, value) == set_bit(c, 0, value)
set_is_enable_interrupt2(c, value) == set_bit(c, 1, value)
set_system_flag(c, value) == set_bit(c, 2, value)
set_is_disabled_clock1(c, value) == set_bit(c, 4, value)

set_is_disabled_clock2_bit6(c, value) == set_bit(c, 6, value)

set_is_disabled_clock2(c, value) == set_bit(c, 5, value)
set_is_enabled_translation1(c, value) == set_bit(c, 6, value)

\* I8042::init, lines 90-94, applied to the byte read at line 87
Step5Config_keeps_translation(c) ==
    LET c1 == set_is_enable_interrupt1(c, FALSE)
        c2 == set_is_enable_interrupt2(c1, FALSE)
        c3 == set_is_disabled_clock1(c2, TRUE)
    IN  set_is_disabled_clock2(c3, TRUE)

Step5Config(c) ==
    LET c1 == set_is_enable_interrupt1(c, FALSE)
        c2 == set_is_enable_interrupt2(c1, FALSE)
        c3 == set_is_disabled_clock1(c2, TRUE)
        c4 == set_is_disabled_clock2(c3, TRUE)
    IN  set_is_enabled_translation1(c4, FALSE)

-----------------------------------------------------------------------------
(* Results of the commands that read a reply *)

probe_result_inverted(f) ==
    IF f.motherboard_implements_8042 THEN "Err" ELSE "Ok"

\* I8042::probe, lines 63-70
probe_result(f) ==
    IF ~f.motherboard_implements_8042 THEN "Err" ELSE "Ok"

test_controller_result_fc_only(v) ==
    IF v = 252 THEN "Err" ELSE "Ok"

test_controller_result(v) ==
    CASE v = 85 -> "Ok"
      [] v = 252 -> "Err"
      [] OTHER -> "Err"

test_port_result_stuck_clock_ok(v) ==
    IF v \in {0, 1} THEN "Ok" ELSE "Err"

test_port_result(v) ==
    CASE v = 0 -> "Ok"
      [] v = 1 -> "Err"
      [] v = 2 -> "Err"
      [] v = 3 -> "Err"
      [] v = 4 -> "Err"
      [] OTHER -> "Err"

reset_result_any_order(resp1, resp2) ==
    IF {resp1, resp2} = {250, 170} THEN "Ok" ELSE "Err"

reset_result(resp1, resp2) ==
    IF resp1 = 250 /\ resp2 = 170 THEN "Ok" ELSE "Err"

dev_type_first_byte_only(resp1, resp2) ==
    CASE resp1 = 0 -> "StandardMouse"
      [] resp1 = 171 -> "StandardKeyboard"
      [] OTHER -> "None"

\* the match of get_dev_type, lines 338-350; resp2 = NoByte is Option::None
dev_type(resp1, resp2) ==
    CASE resp1 = 0 /\ resp2 = NoByte -> "StandardMouse"
      [] resp1 = 171 /\ resp2 = 131 -> "StandardKeyboard"
      [] OTHER -> "None"

-----------------------------------------------------------------------------
(* The controller and the devices behind the ports *)

\* The mock keeps no state and answers every read with any value.
Mock == [mode |-> "mock", ram |-> 0, two |-> FALSE, resend |-> FALSE,
         obuf |-> NoByte, pend |-> <<>>, arg |-> "none"]

\* A command byte arrives at the controller (the command descriptions of
\* ControllerCommands): ram is "byte 0" of the internal RAM, the
\* configuration byte; two says whether the controller has a second port;
\* answers are queued in pend until they reach the output buffer obuf.
Controller_command(c) ==
    CASE c = ReadByte0 -> [ctl EXCEPT !.pend = Append(@, ctl.ram)]
      [] c = WriteByte0 -> [ctl EXCEPT !.arg = "config"]
      [] c = WriteByteInputPort2 -> [ctl EXCEPT !.arg = "port2"]
      [] c = DisablePort1 -> [ctl EXCEPT !.ram = set_bit(@, 4, TRUE)]
      [] c = EnablePort1 -> [ctl EXCEPT !.ram = set_bit(@, 4, FALSE)]
      [] c = DisablePort2 ->
           IF ctl.two THEN [ctl EXCEPT !.ram = set_bit(@, 5, TRUE)] ELSE ctl
      [] c = EnablePort2 ->
           IF ctl.two THEN [ctl EXCEPT !.ram = set_bit(@, 5, FALSE)] ELSE ctl
      [] c = TestController -> [ctl EXCEPT !.pend = Append(@, 85)]
      [] c \in {TestPort1, TestPort2} -> [ctl EXCEPT !.pend = Append(@, 0)]
      [] OTHER -> ctl

\* What a device answers to a command byte (the replies reset and
\* get_dev_type match on): a keyboard on channel 1, a mouse on channel 2.
\* A device may ask once for its first DisableScanning to be sent again
\* (0xFE).
Device_answer(is_port2, b) ==
    CASE b = Reset -> <<250, 170>>
      [] b = DisableScanning -> IF ctl.resend THEN <<254>> ELSE <<250>>
      [] b = Identify -> IF is_port2 THEN <<250, 0>> ELSE <<250, 171, 131>>
      [] OTHER -> <<254>>

\* A byte arrives at the data register: the new configuration byte after
\* WriteByte0, else a command for the device on channel 1, or on channel 2
\* after WriteByteInputPort2.
Controller_data(b) ==
    IF ctl.arg = "config"
    THEN [ctl EXCEPT !.ram = b, !.arg = "none"]
    ELSE [ctl EXCEPT !.pend = @ \o Device_answer(ctl.arg = "port2", b),
                     !.resend = IF b = DisableScanning THEN FALSE ELSE @,
                     !.arg = "none"]

\* the values a read of the status register may give: output-buffer-full
\* is bit 0, and the controller takes every byte written at once (bit 1
\* clear)
StatusAnswers ==
    IF ctl.mode = "mock" THEN StatusBytes
    ELSE {IF ctl.obuf = NoByte THEN 0 ELSE 1}

\* the values a read of the data register may give, `any` for the mock
DataAnswers(any) == IF ctl.mode = "mock" THEN any ELSE {ctl.obuf}

\* The next queued answer reaches the output buffer, at any moment the
\* buffer is empty.
Controller_output ==
    /\ ctl.mode = "model"
    /\ pc \notin {"probe", "probed", "declined", "done", "panic"}
    /\ ctl.obuf = NoByte /\ ctl.pend # <<>>
    /\ ctl' = [ctl EXCEPT !.obuf = Head(ctl.pend), !.pend = Tail(ctl.pend)]
    /\ UNCHANGED <<fadt, probe_ret, pc, ip, io, count, panic_msg, port1,
                   port2, is_exists_port2, config, wlog, prev, last, polls,
                   rx, dev, codec>>

-----------------------------------------------------------------------------
(* The state after construction *)

RxTags == {"test_controller", "probe", "test_port1", "test_port2",
           "reset1", "reset2"}

NoAccess == [port |-> 0, dir |-> "none", val |-> 0]

NoDev == [fn |-> "none", is_port2 |-> FALSE, acks |-> <<>>,
          resp1 |-> Unread, resp2 |-> Unread]

NoCodec == [st |-> "idle", x |-> 0, b |-> 0, v |-> FALSE, y |-> 0, r |-> FALSE]

\* fox_acpi::FADT is null until init_fadt has run; afterwards it points at
\* the table, whose IA-PC boot flags are the platform's.
Fadts == {[init |-> FALSE, motherboard_implements_8042 |-> FALSE]}
         \cup {[init |-> TRUE, motherboard_implements_8042 |-> f] :
                  f \in BOOLEAN}

\* #[derive(Default)] of I8042, lines 22-28, before probe is called
Constructed ==
    /\ probe_ret = "none"
    /\ pc = "probe" /\ ip = "-" /\ io = "poll"
    /\ count = 0
    /\ panic_msg = ""
    /\ port1 = "None" /\ port2 = "None"
    /\ is_exists_port2 = FALSE
    /\ config = 0
    /\ wlog = <<>>
    /\ prev = NoAccess /\ last = NoAccess
    /\ polls = 0
    /\ rx = [t \in RxTags |-> <<>>]
    /\ dev = NoDev

Init ==
    /\ fadt \in Fadts
    /\ codec = NoCodec
    /\ ctl = Mock
    /\ Constructed

-----------------------------------------------------------------------------
(* Control transfer *)

drv == <<port1, port2, is_exists_port2, config>>
plat == <<fadt, probe_ret, codec>>

\* enter the function called at line `site` of init, at its position `step`;
\* `let mut count = 0` of read and write is part of the entry
Goto(site, step) ==
    /\ pc' = site /\ ip' = step /\ io' = "poll"
    /\ count' = 0 /\ polls' = 0
    /\ panic_msg' = panic_msg

Panic(msg) ==
    /\ pc' = "panic" /\ panic_msg' = msg
    /\ UNCHANGED <<ip, io, count, polls>>

Finish ==
    /\ pc' = "done" /\ ip' = "-" /\ io' = "poll"
    /\ count' = 0 /\ polls' = 0
    /\ panic_msg' = panic_msg

(* Port accesses *)

\* PortCommandRegister::write, lines 287-290
PortCommandRegister_write(value) ==
    /\ wlog' = Append(wlog, [port |-> CommandPort, byte |-> value])
    /\ prev' = last
    /\ last' = [port |-> CommandPort, dir |-> "out", val |-> value]
    /\ ctl' = IF ctl.mode = "mock" THEN ctl ELSE Controller_command(value)

\* PortStatusRegister::read, lines 297-301
PortStatusRegister_read(s) ==
    /\ wlog' = wlog
    /\ prev' = last
    /\ last' = [port |-> StatusPort, dir |-> "in", val |-> s]
    /\ ctl' = ctl

\* Self::PORT.read() of PortDataPort, line 378
PortDataPort_PORT_read(v) ==
    /\ wlog' = wlog
    /\ prev' = last
    /\ last' = [port |-> DataPort, dir |-> "in", val |-> v]
    /\ ctl' = IF ctl.mode = "mock" THEN ctl ELSE [ctl EXCEPT !.obuf = NoByte]

\* Self::PORT.write(value) of PortDataPort, line 392
PortDataPort_PORT_write(value) ==
    /\ wlog' = Append(wlog, [port |-> DataPort, byte |-> value])
    /\ prev' = last
    /\ last' = [port |-> DataPort, dir |-> "out", val |-> value]
    /\ ctl' = IF ctl.mode = "mock" THEN ctl ELSE Controller_data(value)

ReadIps == {"read", "read1", "read2", "ds.read", "ds2.read", "id.read", "resp1"}
WriteIps == {"write", "ds.write", "ds2.write", "id.write"}

read_miss_limit_9(c) == c > 9

\* `count += 1; if count > 10` of PortDataPort::read, lines 368-369
read_miss_limit(c) == c > ReadRetryLimit

write_miss_limit_11(c) == c > 11

\* `count += 1; if count > 10` of PortDataPort::write, lines 395-396
write_miss_limit(c) == c > WriteRetryLimit

\* One turn of the loop of PortDataPort::read up to its port access: the
\* status read of try_read, then either on to the data read or a miss.
PortDataPort_read_poll ==
    /\ pc \notin {"probe", "probed", "declined", "done", "panic"}
    /\ ip \in ReadIps /\ io = "poll"
    /\ \E s \in StatusAnswers :
         /\ PortStatusRegister_read(s)
         /\ polls' = polls + 1
         /\ IF output_buffer_is_full(s)
            THEN /\ io' = "xfer"
                 /\ UNCHANGED <<pc, ip, count, panic_msg>>
            ELSE /\ count' = count + 1
                 /\ IF read_miss_limit(count + 1)
                    THEN /\ pc' = "panic" /\ panic_msg' = "read_spinlock"
                         /\ UNCHANGED <<ip, io>>
                    ELSE UNCHANGED <<pc, ip, io, panic_msg>>
    /\ UNCHANGED <<drv, plat, rx, dev>>

\* One turn of the loop of PortDataPort::write up to its port access.
PortDataPort_write_poll ==
    /\ pc \notin {"probe", "probed", "declined", "done", "panic"}
    /\ ip \in WriteIps /\ io = "poll"
    /\ \E s \in StatusAnswers :
         /\ PortStatusRegister_read(s)
         /\ polls' = polls + 1
         /\ IF ~input_buffer_is_full(s)
            THEN /\ io' = "xfer"
                 /\ UNCHANGED <<pc, ip, count, panic_msg>>
            ELSE /\ count' = count + 1
                 /\ IF write_miss_limit(count + 1)
                    THEN /\ pc' = "panic" /\ panic_msg' = "write_spinlock"
                         /\ UNCHANGED <<ip, io>>
                    ELSE UNCHANGED <<pc, ip, io, panic_msg>>
    /\ UNCHANGED <<drv, plat, rx, dev>>

-----------------------------------------------------------------------------
(* I8042::probe and its caller *)

probe ==
    /\ pc = "probe"
    /\ IF ~fadt.init
       THEN /\ Panic("no init FADT")
            /\ UNCHANGED probe_ret
       ELSE /\ probe_ret' = probe_result(fadt)
            /\ pc' = "probed"
            /\ UNCHANGED <<ip, io, count, polls, panic_msg>>
    /\ UNCHANGED <<fadt, codec, drv, wlog, prev, last, ctl, rx, dev>>

\* The caller of the Driver trait: init runs only after probe returned Ok.
driver_start ==
    /\ pc = "probed"
    /\ IF probe_ret = "Ok"
       THEN Goto("L78", "cmd")
       ELSE /\ pc' = "declined"
            /\ UNCHANGED <<ip, io, count, polls, panic_msg>>
    /\ UNCHANGED <<plat, drv, wlog, prev, last, ctl, rx, dev>>

-----------------------------------------------------------------------------
(* I8042::init, steps 3 to 7 *)

disable_port1 ==
    /\ pc = "L78" /\ ip = "cmd"
    /\ PortCommandRegister_write(DisablePort1)
    /\ Goto("L79", "cmd")
    /\ UNCHANGED <<plat, drv, rx, dev>>

disable_port2_skips_restore ==
    /\ pc \in {"L79", "L113"} /\ ip = "cmd"
    /\ PortCommandRegister_write(DisablePort2)
    /\ IF pc = "L79" THEN Goto("L83", "try") ELSE Goto("L120", "cmd")
    /\ UNCHANGED <<plat, drv, rx, dev>>

disable_port2 ==
    /\ pc \in {"L79", "L113"} /\ ip = "cmd"
    /\ PortCommandRegister_write(DisablePort2)
    /\ IF pc = "L79" THEN Goto("L83", "try") ELSE Goto("L114", "cmd")
    /\ UNCHANGED <<plat, drv, rx, dev>>

\* line 83: the status read of try_read; None ends the loop
flush_try_read ==
    /\ pc = "L83" /\ ip = "try" /\ io = "poll"
    /\ \E s \in StatusAnswers :
         /\ PortStatusRegister_read(s)
         /\ IF output_buffer_is_full(s)
            THEN /\ io' = "xfer" /\ polls' = polls + 1
                 /\ UNCHANGED <<pc, ip, count, panic_msg>>
            ELSE Goto("L87", "cmd")
    /\ UNCHANGED <<plat, drv, rx, dev>>

\* line 83: the data read of try_read; Some(value) is dropped
flush_read ==
    /\ pc = "L83" /\ ip = "try" /\ io = "xfer"
    /\ \E v \in DataAnswers(ReplyBytes) : PortDataPort_PORT_read(v)
    /\ Goto("L83", "try")
    /\ UNCHANGED <<plat, drv, rx, dev>>

get_controller_configuration_byte_cmd ==
    /\ pc \in {"L87", "L109"} /\ ip = "cmd"
    /\ PortCommandRegister_write(ReadByte0)
    /\ Goto(pc, "read")
    /\ UNCHANGED <<plat, drv, rx, dev>>

\* lines 87-94: the configuration byte is stored, asserted and edited; it
\* is kept in self.config, so the mock may answer with any of the 256 bytes
init_step5_config ==
    /\ pc = "L87" /\ ip = "read" /\ io = "xfer"
    /\ \E v \in DataAnswers(Byte) :
         /\ PortDataPort_PORT_read(v)
         /\ IF system_flag(v)
            THEN /\ config' = Step5Config(v)
                 /\ Goto("L95", "cmd")
            ELSE /\ config' = v
                 /\ Panic("assertion failed: self.config.system_flag()")
    /\ UNCHANGED <<plat, port1, port2, is_exists_port2, rx, dev>>

set_controller_configuration_byte_cmd ==
    /\ pc \in {"L95", "L103", "L114"} /\ ip = "cmd"
    /\ PortCommandRegister_write(WriteByte0)
    /\ Goto(pc, "write")
    /\ UNCHANGED <<plat, drv, rx, dev>>

set_controller_configuration_byte_data ==
    /\ pc \in {"L95", "L103", "L114"} /\ ip = "write" /\ io = "xfer"
    /\ PortDataPort_PORT_write(config)
    /\ CASE pc = "L95" -> Goto("L101", "cmd")
         [] pc = "L103" -> Goto("L108", "cmd")
         [] pc = "L114" -> Goto("L120", "cmd")
    /\ UNCHANGED <<plat, drv, rx, dev>>

test_controller_cmd ==
    /\ pc = "L101" /\ ip = "cmd"
    /\ PortCommandRegister_write(TestController)
    /\ Goto(pc, "read")
    /\ UNCHANGED <<plat, drv, rx, dev>>

\* line 101: test_controller().expect("test failed")
test_controller_read ==
    /\ pc = "L101" /\ ip = "read" /\ io = "xfer"
    /\ \E v \in DataAnswers(ReplyBytes) :
         /\ PortDataPort_PORT_read(v)
         /\ rx' = [rx EXCEPT !["test_controller"] = <<v>>]
         /\ IF test_controller_result(v) = "Ok"
            THEN Goto("L103", "cmd")
            ELSE Panic("test failed")
    /\ UNCHANGED <<plat, drv, dev>>

enable_port2 ==
    /\ pc \in {"L108", "L129"} /\ ip = "cmd"
    /\ PortCommandRegister_write(EnablePort2)
    /\ IF pc = "L108" THEN Goto("L109", "cmd") ELSE Goto("L134", "write")
    /\ UNCHANGED <<plat, drv, rx, dev>>

\* lines 109-112: the probe of the second channel.  Only bit 5 of the byte
\* is inspected and the byte is then dropped, so ReplyBytes (bit 5 set in
\* some, clear in others) stands for every byte here.
init_step7_probe ==
    /\ pc = "L109" /\ ip = "read" /\ io = "xfer"
    /\ \E cfg \in DataAnswers(ReplyBytes) :
         /\ PortDataPort_PORT_read(cfg)
         /\ rx' = [rx EXCEPT !["probe"] = <<cfg>>]
         /\ IF ~is_disabled_clock2(cfg)
            THEN /\ is_exists_port2' = TRUE
                 /\ Goto("L113", "cmd")
            ELSE /\ is_exists_port2' = is_exists_port2
                 /\ Goto("L120", "cmd")
    /\ UNCHANGED <<plat, port1, port2, config, dev>>

-----------------------------------------------------------------------------
(* I8042::init, steps 8 and 9 *)

test_port1 ==
    /\ pc = "L120" /\ ip = "cmd"
    /\ PortCommandRegister_write(TestPort1)
    /\ Goto(pc, "read")
    /\ UNCHANGED <<plat, drv, rx, dev>>

test_port2 ==
    /\ pc = "L122" /\ ip = "cmd"
    /\ PortCommandRegister_write(TestPort2)
    /\ Goto(pc, "read")
    /\ UNCHANGED <<plat, drv, rx, dev>>

\* test_port, lines 276-285, and the expect of lines 120 and 122
test_port ==
    /\ pc \in {"L120", "L122"} /\ ip = "read" /\ io = "xfer"
    /\ \E v \in DataAnswers(ReplyBytes) :
         /\ PortDataPort_PORT_read(v)
         /\ rx' = [rx EXCEPT ![IF pc = "L120" THEN "test_port1"
                                              ELSE "test_port2"] = <<v>>]
         /\ IF test_port_result(v) = "Ok"
            THEN IF pc = "L120" /\ is_exists_port2
                 THEN Goto("L122", "cmd")
                 ELSE Goto("L127", "cmd")
            ELSE Panic("test failed")
    /\ UNCHANGED <<plat, drv, dev>>

enable_port1 ==
    /\ pc = "L127" /\ ip = "cmd"
    /\ PortCommandRegister_write(EnablePort1)
    /\ IF is_exists_port2 THEN Goto("L129", "cmd") ELSE Goto("L134", "write")
    /\ UNCHANGED <<plat, drv, rx, dev>>

-----------------------------------------------------------------------------
(* PortDataPort::send_to_device *)

\* the is_port2 argument of the calls at lines 134, 136, 141 and 147
IsPort2(site) == site \in {"L136", "L147"}

PrefixIps == {"prefix", "ds.prefix", "ds2.prefix", "id.prefix"}

WriteOf(p) ==
    CASE p = "prefix" -> "write"
      [] p = "ds.prefix" -> "ds.write"
      [] p = "ds2.prefix" -> "ds2.write"
      [] p = "id.prefix" -> "id.write"

ReadOf(w) ==
    CASE w = "write" -> "read1"
      [] w = "ds.write" -> "ds.read"
      [] w = "ds2.write" -> "ds2.read"
      [] w = "id.write" -> "id.read"

\* the DeviceCommands value each call of send_to_device passes
DeviceCommand(w) ==
    CASE w = "write" -> Reset
      [] w \in {"ds.write", "ds2.write"} -> DisableScanning
      [] w = "id.write" -> Identify

send_to_device_always_forwards(site, p, w) == p

send_to_device_never_forwards(site, p, w) == w

\* where send_to_device(is_port2, _) starts: at the forward command for
\* channel 2 (position p), else at the data write (position w)
send_to_device_entry(site, p, w) == IF IsPort2(site) THEN p ELSE w

\* lines 354-356
send_to_device_forward ==
    /\ pc \in {"L134", "L136", "L141", "L147"} /\ ip \in PrefixIps
    /\ PortCommandRegister_write(WriteByteInputPort2)
    /\ Goto(pc, WriteOf(ip))
    /\ UNCHANGED <<plat, drv, rx, dev>>

\* line 358, the port write of PortDataPort::write
send_to_device_write ==
    /\ pc \in {"L134", "L136", "L141", "L147"}
    /\ ip \in WriteIps /\ io = "xfer"
    /\ PortDataPort_PORT_write(DeviceCommand(ip))
    /\ Goto(pc, ReadOf(ip))
    /\ UNCHANGED <<plat, drv, rx, dev>>

-----------------------------------------------------------------------------
(* PortDataPort::reset and I8042::init step 10 *)

ResetTag(site) == IF IsPort2(site) THEN "reset2" ELSE "reset1"

\* a call of get_dev_type(is_port2) from line `site`
CallGetDevType(site) ==
    /\ Goto(site, send_to_device_entry(site, "ds.prefix", "ds.write"))
    /\ dev' = [fn |-> "get_dev_type", is_port2 |-> IsPort2(site),
               acks |-> <<>>, resp1 |-> Unread, resp2 |-> Unread]

reset_read1 ==
    /\ pc \in {"L134", "L136"} /\ ip = "read1" /\ io = "xfer"
    /\ \E resp1 \in DataAnswers(ReplyBytes) :
         /\ PortDataPort_PORT_read(resp1)
         /\ rx' = [rx EXCEPT ![ResetTag(pc)] = <<resp1>>]
    /\ Goto(pc, "read2")
    /\ UNCHANGED <<plat, drv, dev>>

\* lines 311-315 and the expect of lines 134 and 136
reset_read2 ==
    /\ pc \in {"L134", "L136"} /\ ip = "read2" /\ io = "xfer"
    /\ \E resp2 \in DataAnswers(ReplyBytes) :
         /\ PortDataPort_PORT_read(resp2)
         /\ rx' = [rx EXCEPT ![ResetTag(pc)] = Append(@, resp2)]
         /\ IF reset_result(rx[ResetTag(pc)][1], resp2) = "Ok"
            THEN IF pc = "L134" /\ is_exists_port2
                 THEN /\ Goto("L136", send_to_device_entry("L136", "prefix", "write"))
                      /\ dev' = dev
                 ELSE CallGetDevType("L141")
            ELSE /\ Panic("reset failed")
                 /\ dev' = dev
    /\ UNCHANGED <<plat, drv>>

-----------------------------------------------------------------------------
(* PortDataPort::get_dev_type and I8042::init step 11 *)

Return_abort_on_none(ret) ==
    IF ret = "None"
    THEN /\ Panic("unknown device")
         /\ UNCHANGED <<port1, port2>>
    ELSE IF pc = "L141"
         THEN /\ port1' = ret /\ port2' = port2
              /\ Goto("L142", "log")
         ELSE /\ port2' = ret /\ port1' = port1
              /\ Goto("L148", "log")

Return_wrong_channel(ret) ==
    IF pc = "L141"
    THEN /\ port2' = ret /\ port1' = port1
         /\ Goto("L142", "log")
    ELSE /\ port1' = ret /\ port2' = port2
         /\ Goto("L148", "log")

\* `self.port1 = ...` of line 141, `self.port2 = ...` of line 147
Return(ret) ==
    IF pc = "L141"
    THEN /\ port1' = ret /\ port2' = port2
         /\ Goto("L142", "log")
    ELSE /\ port2' = ret /\ port1' = port1
         /\ Goto("L148", "log")

get_dev_type_ack_disable_no_retry ==
    /\ pc \in {"L141", "L147"} /\ ip = "ds.read" /\ io = "xfer"
    /\ \E v \in DataAnswers(ReplyBytes) :
         /\ PortDataPort_PORT_read(v)
         /\ dev' = [dev EXCEPT !.acks = Append(@, v)]
         /\ Goto(pc, send_to_device_entry(pc, "id.prefix", "id.write"))
    /\ UNCHANGED <<plat, drv, rx>>

\* lines 322-323: the acknowledgement of the first DisableScanning
get_dev_type_ack_disable ==
    /\ pc \in {"L141", "L147"} /\ ip = "ds.read" /\ io = "xfer"
    /\ \E v \in DataAnswers(ReplyBytes) :
         /\ PortDataPort_PORT_read(v)
         /\ dev' = [dev EXCEPT !.acks = Append(@, v)]
         /\ IF v # 250
            THEN Goto(pc, send_to_device_entry(pc, "ds2.prefix", "ds2.write"))
            ELSE Goto(pc, send_to_device_entry(pc, "id.prefix", "id.write"))
    /\ UNCHANGED <<plat, drv, rx>>

\* lines 325-328: the acknowledgement of the repeated DisableScanning
get_dev_type_ack_retry ==
    /\ pc \in {"L141", "L147"} /\ ip = "ds2.read" /\ io = "xfer"
    /\ \E v \in DataAnswers(ReplyBytes) :
         /\ PortDataPort_PORT_read(v)
         /\ dev' = [dev EXCEPT !.acks = Append(@, v)]
         /\ IF v # 250
            THEN Return("None")
            ELSE /\ Goto(pc, send_to_device_entry(pc, "id.prefix", "id.write"))
                 /\ UNCHANGED <<port1, port2>>
    /\ UNCHANGED <<plat, is_exists_port2, config, rx>>

\* lines 330-333: the acknowledgement of Identify
get_dev_type_ack_identify ==
    /\ pc \in {"L141", "L147"} /\ ip = "id.read" /\ io = "xfer"
    /\ \E v \in DataAnswers(ReplyBytes) :
         /\ PortDataPort_PORT_read(v)
         /\ dev' = [dev EXCEPT !.acks = Append(@, v)]
         /\ IF v # 250
            THEN Return("None")
            ELSE /\ Goto(pc, "resp1")
                 /\ UNCHANGED <<port1, port2>>
    /\ UNCHANGED <<plat, is_exists_port2, config, rx>>

\* line 336
get_dev_type_resp1 ==
    /\ pc \in {"L141", "L147"} /\ ip = "resp1" /\ io = "xfer"
    /\ \E resp1 \in DataAnswers(ReplyBytes) :
         /\ PortDataPort_PORT_read(resp1)
         /\ dev' = [dev EXCEPT !.resp1 = resp1]
    /\ Goto(pc, "resp2")
    /\ UNCHANGED <<plat, drv, rx>>

\* line 337, the status read of try_read; None goes to the match
get_dev_type_resp2_try_read ==
    /\ pc \in {"L141", "L147"} /\ ip = "resp2" /\ io = "poll"
    /\ \E s \in StatusAnswers :
         /\ PortStatusRegister_read(s)
         /\ IF output_buffer_is_full(s)
            THEN /\ io' = "xfer" /\ polls' = polls + 1
                 /\ UNCHANGED <<pc, ip, count, panic_msg, port1, port2, dev>>
            ELSE /\ dev' = [dev EXCEPT !.resp2 = NoByte]
                 /\ Return(dev_type(dev.resp1, NoByte))
    /\ UNCHANGED <<plat, is_exists_port2, config, rx>>

\* line 337, the data read of try_read, and the match of lines 338-350
get_dev_type_resp2 ==
    /\ pc \in {"L141", "L147"} /\ ip = "resp2" /\ io = "xfer"
    /\ \E resp2 \in DataAnswers(ReplyBytes) :
         /\ PortDataPort_PORT_read(resp2)
         /\ dev' = [dev EXCEPT !.resp2 = resp2]
         /\ Return(dev_type(dev.resp1, resp2))
    /\ UNCHANGED <<plat, is_exists_port2, config, rx>>

\* lines 142-146 and 148-152: the device found is logged, then the second
\* channel is identified or init returns
init_log_dev_type ==
    /\ pc \in {"L142", "L148"} /\ ip = "log"
    /\ IF pc = "L142" /\ is_exists_port2
       THEN CallGetDevType("L147")
       ELSE /\ Finish
            /\ dev' = dev
    /\ UNCHANGED <<plat, drv, wlog, prev, last, ctl, rx>>

-----------------------------------------------------------------------------
(* The driver *)

Next ==
    \/ probe
    \/ driver_start
    \/ disable_port1
    \/ disable_port2
    \/ flush_try_read
    \/ flush_read
    \/ get_controller_configuration_byte_cmd
    \/ init_step5_config
    \/ set_controller_configuration_byte_cmd
    \/ set_controller_configuration_byte_data
    \/ test_controller_cmd
    \/ test_controller_read
    \/ enable_port2
    \/ init_step7_probe
    \/ test_port1
    \/ test_port2
    \/ test_port
    \/ enable_port1
    \/ send_to_device_forward
    \/ send_to_device_write
    \/ reset_read1
    \/ reset_read2
    \/ get_dev_type_ack_disable
    \/ get_dev_type_ack_retry
    \/ get_dev_type_ack_identify
    \/ get_dev_type_resp1
    \/ get_dev_type_resp2_try_read
    \/ get_dev_type_resp2
    \/ init_log_dev_type
    \/ PortDataPort_read_poll
    \/ PortDataPort_write_poll

Spec == Init /\ [][Next]_vars

\* The driver runs on one processor with nothing else scheduled: it takes
\* its next step whenever it has one.
LiveSpec == Init /\ [][Next]_vars /\ WF_vars(Next)

\* The driver in front of the controller model.  The configuration byte
\* found at power-on is the usual 0x47, 0xCF (reserved bits set) or 0x03
\* (system flag clear); a stale byte may wait in the output buffer.
PowerOnConfigs == {71, 207, 3}

DeviceInit ==
    /\ fadt \in Fadts
    /\ codec = NoCodec
    /\ ctl \in [mode : {"model"}, ram : PowerOnConfigs, two : BOOLEAN,
                resend : BOOLEAN, obuf : {NoByte, 28}, pend : {<<>>},
                arg : {"none"}]
    /\ Constructed

DeviceNext == Next \/ Controller_output

DeviceSpec == DeviceInit /\ [][DeviceNext]_vars

-----------------------------------------------------------------------------
(* The register codec on its own: one setter of ControllerConfigurationByte *)
(* applied to a byte x, then the getter of the same bit.                    *)

CfgBits == {0, 1, 2, 4, 5, 6}

\* the setter of bit b, lines 505-532
Setter(b, c, value) ==
    CASE b = 0 -> set_is_enable_interrupt1(c, value)
      [] b = 1 -> set_is_enable_interrupt2(c, value)
      [] b = 2 -> set_system_flag(c, value)
      [] b = 4 -> set_is_disabled_clock1(c, value)
      [] b = 5 -> set_is_disabled_clock2(c, value)
      [] b = 6 -> set_is_enabled_translation1(c, value)

\* the getter of bit b, lines 471-500
Getter(b, c) ==
    CASE b = 0 -> is_enable_interrupt1(c)
      [] b = 1 -> is_enable_interrupt2(c)
      [] b = 2 -> system_flag(c)
      [] b = 4 -> is_disabled_clock1(c)
      [] b = 5 -> is_disabled_clock2(c)
      [] b = 6 -> is_enabled_translation1(c)

CodecInit ==
    /\ fadt = [init |-> FALSE, motherboard_implements_8042 |-> FALSE]
    /\ codec \in [st : {"new"}, x : Byte, b : CfgBits, v : BOOLEAN,
                  y : {0}, r : {FALSE}]
    /\ ctl = Mock
    /\ Constructed

codec_set ==
    /\ codec.st = "new"
    /\ codec' = [codec EXCEPT !.y = Setter(codec.b, codec.x, codec.v),
                              !.st = "set"]
    /\ UNCHANGED <<fadt, probe_ret, pc, ip, io, count, panic_msg, drv,
                   wlog, prev, last, ctl, polls, rx, dev>>

codec_get ==
    /\ codec.st = "set"
    /\ codec' = [codec EXCEPT !.r = Getter(codec.b, codec.y), !.st = "got"]
    /\ UNCHANGED <<fadt, probe_ret, pc, ip, io, count, panic_msg, drv,
                   wlog, prev, last, ctl, polls, rx, dev>>

CodecNext == codec_set \/ codec_get

CodecSpec == CodecInit /\ [][CodecNext]_vars

-----------------------------------------------------------------------------
(* Properties *)

BitAt(n, k) == (n \div (2 ^ k)) % 2

Cmd(b) == [port |-> CommandPort, byte |-> b]
Data(b) == [port |-> DataPort, byte |-> b]

IsStatusRead(a) == a.port = StatusPort /\ a.dir = "in"
IsDataRead(a) == a.port = DataPort /\ a.dir = "in"
IsDataWrite(a) == a.port = DataPort /\ a.dir = "out"

InInit == pc \notin {"probe", "probed", "declined", "done", "panic"}

\* the device-level bytes one get_dev_type call may write
IdentifyWrites == {<<245, 242>>, <<245, 245>>, <<245, 245, 242>>}

\* device-level bytes as they reach the ports on channel 1 / channel 2
ToChannel1(bytes) == [i \in 1 .. Len(bytes) |-> Data(bytes[i])]
ToChannel2(bytes) ==
    [i \in 1 .. 2 * Len(bytes) |->
        IF i % 2 = 1 THEN Cmd(WriteByteInputPort2) ELSE Data(bytes[i \div 2])]

WriteConfig == <<Cmd(WriteByte0), Data(config)>>

\* C1: a completed init has written disable-1, disable-2, read-config,
\* write-config, self-test, write-config, enable-2 (probe), read-config,
\* [the probe's cleanup], test-1, [test-2], enable-1, [enable-2], the resets
\* and the identifies, in this order; test-2, the second enable-2 and the
\* 0xD4-forwarded device commands are there iff a second channel was found.
C1_CommandOrder ==
    pc = "done" =>
      \E cleanup \in BOOLEAN, id1 \in IdentifyWrites, id2 \in IdentifyWrites :
        wlog = <<Cmd(DisablePort1), Cmd(DisablePort2), Cmd(ReadByte0)>>
               \o WriteConfig
               \o <<Cmd(TestController)>>
               \o WriteConfig
               \o <<Cmd(EnablePort2), Cmd(ReadByte0)>>
               \o (IF cleanup THEN <<Cmd(DisablePort2)>> \o WriteConfig ELSE <<>>)
               \o <<Cmd(TestPort1)>>
               \o (IF is_exists_port2 THEN <<Cmd(TestPort2)>> ELSE <<>>)
               \o <<Cmd(EnablePort1)>>
               \o (IF is_exists_port2 THEN <<Cmd(EnablePort2)>> ELSE <<>>)
               \o ToChannel1(<<Reset>>)
               \o (IF is_exists_port2 THEN ToChannel2(<<Reset>>) ELSE <<>>)
               \o ToChannel1(id1)
               \o (IF is_exists_port2 THEN ToChannel2(id2) ELSE <<>>)

C1_Witness ==
    /\ pc = "done" /\ is_exists_port2
    /\ port1 = "StandardKeyboard" /\ port2 = "StandardMouse"

\* C2: a self-test reply other than 0x55 halts init: nothing is written
\* after the self-test command, no device is classified and no second
\* channel is recorded.
C2_SelfTestGate ==
    (rx["test_controller"] # <<>> /\ rx["test_controller"][1] # 85) =>
      /\ pc = "panic"
      /\ wlog[Len(wlog)] = Cmd(TestController)
      /\ \A i \in 1 .. Len(wlog) :
           /\ wlog[i] \notin {Cmd(TestPort1), Cmd(TestPort2), Cmd(EnablePort1)}
           /\ wlog[i] \notin {Data(Reset), Data(Identify)}
      /\ port1 = "None" /\ port2 = "None"
      /\ is_exists_port2 = FALSE

C2_Witness ==
    /\ rx["test_controller"] = <<252>>
    /\ pc = "panic"

\* the place in wlog of the probe's read-config (the second 0x20)
ProbeIndex ==
    CHOOSE i \in 1 .. Len(wlog) :
      /\ wlog[i] = Cmd(ReadByte0)
      /\ \E j \in 1 .. i - 1 : wlog[j] = Cmd(ReadByte0)

\* C3: once the probe has read the configuration byte, has-second-channel
\* is true iff bit 5 of that byte is clear, and when bit 5 is set no
\* channel-2 command (0xA7, 0xA8, 0xA9, 0xD4) is written after the probe.
C3_SecondChannelDetection ==
    rx["probe"] # <<>> =>
      /\ is_exists_port2 <=> (BitAt(rx["probe"][1], 5) = 0)
      /\ BitAt(rx["probe"][1], 5) = 1 =>
           \A i \in ProbeIndex + 1 .. Len(wlog) :
             wlog[i] \notin {Cmd(DisablePort2), Cmd(EnablePort2),
                             Cmd(TestPort2), Cmd(WriteByteInputPort2)}

C3_Witness ==
    /\ pc = "done"
    /\ rx["probe"] = <<170>>
    /\ ~is_exists_port2

\* the channel the latest get_dev_type call was for holds its result
Classified == IF dev.is_port2 THEN port2 ELSE port1

\* C4: after the acknowledgements, get_dev_type gives Standard-Mouse exactly
\* for the reply (0x00, no second byte), Standard-Keyboard exactly for
\* (0xAB, 0x83), and no device for every other reply.
C4_IdentifyClassification ==
    (dev.fn = "get_dev_type" /\ dev.resp2 # Unread) =>
      /\ dev.acks \in {<<250, 250>>}
                        \cup {<<v, 250, 250>> : v \in ReplyBytes \ {250}}
      /\ Classified = "StandardMouse" <=> (dev.resp1 = 0 /\ dev.resp2 = NoByte)
      /\ Classified = "StandardKeyboard" <=> (dev.resp1 = 171 /\ dev.resp2 = 131)
      /\ Classified \in {"StandardMouse", "StandardKeyboard", "None"}

C4_Witness ==
    /\ dev.fn = "get_dev_type" /\ dev.is_port2
    /\ dev.resp1 = 171 /\ dev.resp2 = 170
    /\ port2 = "None"
    /\ pc = "done"

\* C5: a blocking read whose status polls all miss makes exactly
\* ReadRetryLimit + 1 polls (the miss counter has then exceeded the limit),
\* ends in the read_spinlock panic and has not read the data register.
C5_BoundedReadRetry ==
    /\ panic_msg = "read_spinlock" =>
         /\ pc = "panic"
         /\ polls = ReadRetryLimit + 1 /\ count = polls
         /\ IsStatusRead(last) /\ BitAt(last.val, 0) = 0
         /\ IsStatusRead(prev) /\ BitAt(prev.val, 0) = 0
    /\ (InInit /\ ip \in ReadIps /\ io = "poll") =>
         /\ polls <= ReadRetryLimit /\ count = polls
         /\ polls > 0 => (IsStatusRead(last) /\ BitAt(last.val, 0) = 0)

C5_Witness ==
    /\ panic_msg = "read_spinlock"
    /\ ip = "resp1"
    /\ polls = 11

\* C6: with bit 5 set in the probe's configuration byte, self-test 0x55,
\* test-channel-1 0x00, channel-1 reset (0xFA, 0xAA) and identify reply
\* (0xFA, 0xFA, 0xAB, 0x83), init ends with no second channel, channel 1 a
\* Standard-Keyboard and channel 2 unclassified.
C6_SingleChannelKeyboard ==
    ( /\ rx["probe"] # <<>> /\ BitAt(rx["probe"][1], 5) = 1
      /\ rx["test_controller"] = <<85>>
      /\ rx["test_port1"] = <<0>>
      /\ rx["reset1"] = <<250, 170>>
      /\ dev.fn = "get_dev_type" /\ ~dev.is_port2
      /\ dev.acks = <<250, 250>> /\ dev.resp1 = 171 /\ dev.resp2 = 131 ) =>
      /\ pc \in {"L142", "done"}
      /\ is_exists_port2 = FALSE
      /\ port1 = "StandardKeyboard"
      /\ port2 = "None"

C6_Witness ==
    /\ pc = "done"
    /\ rx["probe"] # <<>> /\ BitAt(rx["probe"][1], 5) = 1
    /\ rx["reset1"] = <<250, 170>>
    /\ dev.acks = <<250, 250>> /\ dev.resp1 = 171 /\ dev.resp2 = 131
    /\ port1 = "StandardKeyboard"

\* C7: a setter of bit b with value v, then the getter of bit b, returns v,
\* and every other bit of the byte is the bit of x.
C7_RegisterRoundTrip ==
    codec.st = "got" =>
      /\ codec.r = codec.v
      /\ \A k \in (0 .. 7) \ {codec.b} : BitAt(codec.y, k) = BitAt(codec.x, k)

C7_Witness ==
    /\ codec.st = "got"
    /\ codec.x = 255 /\ codec.b = 5 /\ codec.v = FALSE
    /\ codec.y = 223 /\ codec.r = FALSE

\* C8: reset writes 0xFF (after 0xD4 for channel 2), reads two bytes and
\* succeeds iff they are 0xFA then 0xAA.
C8_DeviceReset ==
    /\ \A t \in {"reset1", "reset2"} : Len(rx[t]) <= 2
    /\ (InInit /\ pc \in {"L134", "L136"} /\ ip \in {"read1", "read2"}) =>
         /\ Len(rx[ResetTag(pc)]) = (IF ip = "read1" THEN 0 ELSE 1)
         /\ wlog[Len(wlog)] = Data(Reset)
         /\ wlog[Len(wlog) - 1] = Cmd(WriteByteInputPort2) <=> pc = "L136"
    /\ Len(rx["reset1"]) = 2 =>
         (rx["reset1"] # <<250, 170>>
            <=> (panic_msg = "reset failed" /\ rx["reset2"] = <<>>))
    /\ Len(rx["reset2"]) = 2 =>
         (rx["reset2"] # <<250, 170>> <=> panic_msg = "reset failed")

C8_Witness ==
    /\ rx["reset1"] = <<250, 170>>
    /\ rx["reset2"] = <<170, 250>>
    /\ panic_msg = "reset failed"

\* C9: a read of the data register directly follows a status read with
\* bit 0 set; a write of the data register directly follows a status read
\* with bit 1 clear.
C9_PortAccessContract ==
    /\ IsDataRead(last) => (IsStatusRead(prev) /\ BitAt(prev.val, 0) = 1)
    /\ IsDataWrite(last) => (IsStatusRead(prev) /\ BitAt(prev.val, 1) = 0)

C9_Witness ==
    /\ IsDataRead(last) /\ last.val = 131
    /\ prev.val = 3
    /\ port1 = "StandardKeyboard"

\* C10: probe touches no port, fails exactly when the platform flag is
\* false and succeeds exactly when it is true; after a failed probe init is
\* not entered and no port is ever accessed.
C10_CapabilityGate ==
    /\ pc \in {"probe", "probed"} => (wlog = <<>> /\ last = NoAccess)
    /\ probe_ret # "none" =>
         /\ fadt.init
         /\ probe_ret = "Err" <=> ~fadt.motherboard_implements_8042
         /\ probe_ret = "Ok" <=> fadt.motherboard_implements_8042
    /\ probe_ret # "Ok" =>
         /\ pc \in {"probe", "probed", "declined", "panic"}
         /\ wlog = <<>> /\ last = NoAccess /\ prev = NoAccess

C10_Witness ==
    /\ pc = "declined"
    /\ probe_ret = "Err"

AssertMsg == "assertion failed: self.config.system_flag()"

\* C11: when the configuration byte read in step 3 has bit 2 clear the
\* sequence stops there: read-config stays the last byte written, no second
\* channel is recorded and no device is classified; the sequence goes on to
\* write-config only after a byte with bit 2 set.
C11_SystemFlagGate ==
    /\ panic_msg = AssertMsg =>
         /\ pc = "panic"
         /\ IsDataRead(last) /\ BitAt(last.val, 2) = 0
         /\ wlog = <<Cmd(DisablePort1), Cmd(DisablePort2), Cmd(ReadByte0)>>
         /\ is_exists_port2 = FALSE
         /\ port1 = "None" /\ port2 = "None"
    /\ (pc = "L95" /\ ip = "cmd") =>
         (IsDataRead(last) /\ BitAt(last.val, 2) = 1)
    /\ (Len(wlog) = 3 /\ IsDataRead(last) /\ BitAt(last.val, 2) = 0) =>
         panic_msg = AssertMsg

C11_Witness ==
    /\ panic_msg = AssertMsg
    /\ last.val = 251
    /\ config = 251

\* C12: a failed self-test is reported to the caller of init as a failure
\* result; the run does not end in a panic.
C12_CleanFailure ==
    (rx["test_controller"] # <<>> /\ rx["test_controller"][1] # 85) =>
      pc # "panic"

\* C13: a non-zero interface test or a reset other than (0xFA, 0xAA) ends
\* the run with nothing written afterwards; after a failed test of channel
\* 2 enable-channel-1 is never written, after a failed reset of channel 2
\* identify is never written and channel 1 stays unclassified.
C13_ChannelFaultsFatal ==
    /\ (rx["test_port1"] # <<>> /\ rx["test_port1"] # <<0>>) =>
         (pc = "panic" /\ wlog[Len(wlog)] = Cmd(TestPort1))
    /\ (rx["test_port2"] # <<>> /\ rx["test_port2"] # <<0>>) =>
         /\ pc = "panic" /\ wlog[Len(wlog)] = Cmd(TestPort2)
         /\ \A i \in 1 .. Len(wlog) : wlog[i] # Cmd(EnablePort1)
    /\ (Len(rx["reset1"]) = 2 /\ rx["reset1"] # <<250, 170>>) =>
         /\ pc = "panic" /\ wlog[Len(wlog)] = Data(Reset)
         /\ rx["reset2"] = <<>>
         /\ port1 = "None" /\ port2 = "None"
    /\ (Len(rx["reset2"]) = 2 /\ rx["reset2"] # <<250, 170>>) =>
         /\ pc = "panic" /\ wlog[Len(wlog)] = Data(Reset)
         /\ \A i \in 1 .. Len(wlog) : wlog[i] # Data(Identify)
         /\ port1 = "None" /\ port2 = "None"

C13_Witness ==
    /\ pc = "panic"
    /\ rx["test_port1"] = <<0>>
    /\ rx["test_port2"] = <<1>>

\* the acknowledgement that made get_dev_type give up, if any
AckFailed == dev.acks # <<>> /\ dev.acks[Len(dev.acks)] # 250 /\ Len(dev.acks) >= 2

\* C14: a get_dev_type call whose acknowledgement failed, or whose reply
\* is neither (0x00, none) nor (0xAB, 0x83), leaves its channel
\* unclassified and init goes on: only a port timeout ends the run during
\* the identifies, and a completed init with a second channel has
\* identified channel 2 whatever channel 1 answered.
C14_UnknownDeviceNotAnError ==
    /\ (pc = "panic" /\ dev.fn = "get_dev_type") =>
         panic_msg \in {"read_spinlock", "write_spinlock"}
    /\ (pc \in {"L142", "L148"} /\ AckFailed) => Classified = "None"
    /\ (pc \in {"L142", "L148"} /\ dev.resp2 # Unread
          /\ <<dev.resp1, dev.resp2>> \notin {<<0, NoByte>>, <<171, 131>>}) =>
         Classified = "None"
    /\ (pc \in {"L147", "L148"} \/ (pc = "done" /\ is_exists_port2)) =>
         (dev.fn = "get_dev_type" /\ dev.is_port2)
    /\ pc = "done" =>
         (dev.fn = "get_dev_type" /\ dev.is_port2 = is_exists_port2)

C14_Witness ==
    /\ pc = "done"
    /\ port1 = "None"
    /\ dev.is_port2 /\ AckFailed
    /\ port2 = "None"

\* C15: bit 3 and bit 7 are zero in the shadow configuration byte and in
\* every byte written after write-config, whatever configuration byte the
\* controller returned.
C15_ReservedBitsZero ==
    /\ BitAt(config, 3) = 0 /\ BitAt(config, 7) = 0
    /\ \A i \in 1 .. Len(wlog) - 1 :
         wlog[i] = Cmd(WriteByte0) =>
           (BitAt(wlog[i + 1].byte, 3) = 0 /\ BitAt(wlog[i + 1].byte, 7) = 0)

\* C16: once get_dev_type has determined a classification from the reply
\* bytes, the enable-scanning byte 0xF4 is the next byte written to the
\* device, so a completed init has written it.
C16_ScanningReenabled ==
    (pc = "done" /\ dev.resp2 # Unread) =>
      \E i \in 1 .. Len(wlog) : wlog[i] = Data(244)

\* the positions of the driver at which the byte just written is a device
\* command whose answer is awaited
AwaitingDeviceAnswer ==
    pc \in {"L134", "L136", "L141", "L147"}
    /\ ip \in {"read1", "ds.read", "ds2.read", "id.read"}

\* C17: a device command for channel 2 is the data write immediately after
\* a 0xD4 command write, a device command for channel 1 is not preceded by
\* 0xD4, every 0xD4 is followed by a device command unless the data write
\* timed out, and 0xD4 is written only when a second channel exists.
C17_Channel2Forwarding ==
    /\ AwaitingDeviceAnswer =>
         /\ wlog[Len(wlog)] \in {Data(Reset), Data(DisableScanning), Data(Identify)}
         /\ wlog[Len(wlog) - 1] = Cmd(WriteByteInputPort2) <=> IsPort2(pc)
    /\ \A i \in 1 .. Len(wlog) :
         wlog[i] = Cmd(WriteByteInputPort2) =>
           /\ is_exists_port2
           /\ i < Len(wlog) =>
                wlog[i + 1] \in {Data(Reset), Data(DisableScanning), Data(Identify)}
           /\ i = Len(wlog) =>
                \/ IsPort2(pc) /\ ip \in WriteIps
                \/ pc = "panic" /\ panic_msg = "write_spinlock"

C17_Witness ==
    /\ pc = "L147" /\ ip = "ds2.read"
    /\ wlog[Len(wlog) - 1] = Cmd(WriteByteInputPort2)
    /\ wlog[Len(wlog)] = Data(DisableScanning)

\* the data byte of the write-config of step 3, line 95
Step3Byte == wlog[5].byte

\* C18: when the probe read a configuration byte with bit 5 clear, a second
\* channel is recorded, the next writes are disable-channel-2 and
\* write-config with the byte written in step 3, test-channel-1 comes only
\* after them, and the shadow configuration byte is still the byte of
\* step 3 whatever the probe read.
C18_ProbeCleanup ==
    /\ (rx["probe"] # <<>> /\ BitAt(rx["probe"][1], 5) = 0) =>
         /\ is_exists_port2
         /\ Len(wlog) > ProbeIndex => wlog[ProbeIndex + 1] = Cmd(DisablePort2)
         /\ Len(wlog) > ProbeIndex + 1 => wlog[ProbeIndex + 2] = Cmd(WriteByte0)
         /\ Len(wlog) > ProbeIndex + 2 => wlog[ProbeIndex + 3] = Data(Step3Byte)
         /\ \A i \in 1 .. Len(wlog) :
              wlog[i] = Cmd(TestPort1) => i = ProbeIndex + 4
    /\ rx["probe"] # <<>> => config = Step3Byte

C18_Witness ==
    /\ rx["probe"] = <<0>>
    /\ config = 60
    /\ wlog[Len(wlog)] = Cmd(TestPort1)

\* C19 as stated: after a probe that read bit 5 set (no second channel),
\* disable-channel-2 and write-config are written before test-channel-1.
C19_CleanupIfProbeNegative ==
    (rx["probe"] # <<>> /\ BitAt(rx["probe"][1], 5) = 1
       /\ \E i \in 1 .. Len(wlog) : wlog[i] = Cmd(TestPort1)) =>
      /\ wlog[ProbeIndex + 1] = Cmd(DisablePort2)
      /\ wlog[ProbeIndex + 2] = Cmd(WriteByte0)

\* C19: once test-channel-1 is written, disable-channel-2 and write-config
\* stand between the probe's read-config and test-channel-1 if and only if
\* the probe read bit 5 clear (second channel found); after a probe that
\* read bit 5 set test-channel-1 is the next write.
C19_CleanupIffProbePositive ==
    (rx["probe"] # <<>> /\ \E i \in 1 .. Len(wlog) : wlog[i] = Cmd(TestPort1)) =>
      /\ (/\ wlog[ProbeIndex + 1] = Cmd(DisablePort2)
          /\ wlog[ProbeIndex + 2] = Cmd(WriteByte0))
           <=> BitAt(rx["probe"][1], 5) = 0
      /\ BitAt(rx["probe"][1], 5) = 1 => wlog[ProbeIndex + 1] = Cmd(TestPort1)

C19_Witness ==
    /\ rx["probe"] = <<59>>
    /\ pc = "done"
    /\ wlog[ProbeIndex + 1] = Cmd(TestPort1)

\* C20: the byte written by the write-config of step 3 is the byte read
\* with bits 0, 1 and 6 cleared, bits 4 and 5 set and bits 2, 3 and 7
\* unchanged; the write-config after the self-test and every later one
\* carry the same byte.
C20_ConfigRewrite ==
    /\ (pc = "L95" /\ IsDataRead(last)) =>
         /\ BitAt(config, 0) = 0 /\ BitAt(config, 1) = 0 /\ BitAt(config, 6) = 0
         /\ BitAt(config, 4) = 1 /\ BitAt(config, 5) = 1
         /\ \A k \in {2, 3, 7} : BitAt(config, k) = BitAt(last.val, k)
    /\ Len(wlog) >= 5 => (wlog[4] = Cmd(WriteByte0) /\ wlog[5] = Data(config))
    /\ \A i \in 1 .. Len(wlog) - 1 :
         wlog[i] = Cmd(WriteByte0) => wlog[i + 1] = wlog[5]
    /\ (rx["test_controller"] = <<85>> /\ Len(wlog) >= 8) =>
         (wlog[7] = Cmd(WriteByte0) /\ wlog[8] = wlog[5])
    /\ (\E i \in 1 .. Len(wlog) : wlog[i] = Cmd(EnablePort2)) =>
         rx["test_controller"] = <<85>>

C20_Witness ==
    /\ prev = [port |-> DataPort, dir |-> "in", val |-> 207]
    /\ last = [port |-> CommandPort, dir |-> "out", val |-> WriteByte0]
    /\ config = 188

\* how often the device byte b has been written to channel 2 (forwarded by
\* 0xD4) or to channel 1 (not forwarded)
DeviceWrites(to_port2, b) ==
    Cardinality({i \in 2 .. Len(wlog) :
                   /\ wlog[i] = Data(b)
                   /\ (wlog[i - 1] = Cmd(WriteByteInputPort2)) = to_port2})

\* C21: in one get_dev_type call 0xF5 is written once when its first
\* acknowledgement is 0xFA and twice otherwise, never a third time; when
\* the second acknowledgement is not 0xFA either the call returns None
\* without having written 0xF2.
C21_DisableScanningRetry ==
    /\ \A ch \in BOOLEAN : DeviceWrites(ch, DisableScanning) <= 2
    /\ dev.fn = "get_dev_type" =>
         LET n == DeviceWrites(dev.is_port2, DisableScanning)
             ids == DeviceWrites(dev.is_port2, Identify)
         IN  /\ dev.acks = <<>> => (n <= 1 /\ ids = 0)
             /\ (dev.acks # <<>> /\ dev.acks[1] = 250) => n = 1
             /\ (Len(dev.acks) = 1 /\ dev.acks[1] # 250) => (n <= 2 /\ ids = 0)
             /\ (Len(dev.acks) >= 2 /\ dev.acks[1] # 250) => n = 2
             /\ (Len(dev.acks) >= 2 /\ dev.acks[1] # 250 /\ dev.acks[2] # 250) =>
                  /\ ids = 0 /\ Len(dev.acks) = 2
                  /\ Classified = "None"
                  /\ pc \in {"L142", "L147", "L148", "done"}
             /\ ids <= 1

C21_Witness ==
    /\ dev.fn = "get_dev_type" /\ dev.is_port2
    /\ dev.acks = <<252, 252>>
    /\ DeviceWrites(TRUE, DisableScanning) = 2
    /\ DeviceWrites(TRUE, Identify) = 0
    /\ pc = "done"

\* C22: a blocking data write whose status polls all show input-buffer-full
\* makes exactly WriteRetryLimit + 1 polls, ends in the write_spinlock
\* panic and has not written the data register; a poll that shows the bit
\* clear is followed by the one data write, which ends the call.
C22_BoundedWriteRetry ==
    /\ panic_msg = "write_spinlock" =>
         /\ pc = "panic"
         /\ polls = WriteRetryLimit + 1 /\ count = polls
         /\ IsStatusRead(last) /\ BitAt(last.val, 1) = 1
         /\ IsStatusRead(prev) /\ BitAt(prev.val, 1) = 1
    /\ (InInit /\ ip \in WriteIps) => ~IsDataWrite(last)
    /\ (InInit /\ ip \in WriteIps /\ io = "poll") =>
         /\ polls <= WriteRetryLimit /\ count = polls
         /\ polls > 0 => (IsStatusRead(last) /\ BitAt(last.val, 1) = 1)
    /\ (InInit /\ ip \in WriteIps /\ io = "xfer") =>
         (IsStatusRead(last) /\ BitAt(last.val, 1) = 0 /\ polls = count + 1)
    /\ IsDataWrite(last) =>
         (IsStatusRead(prev) /\ BitAt(prev.val, 1) = 0 /\ polls = 0)

C22_Witness ==
    /\ panic_msg = "write_spinlock"
    /\ ip = "id.write"
    /\ polls = 11
    /\ wlog[Len(wlog)] = Data(DisableScanning)

\* C23: every write to the command register or to the data register comes
\* directly after a status read that showed input-buffer-full clear.
C23_InputBufferClearBeforeWrite ==
    last.dir = "out" => (IsStatusRead(prev) /\ BitAt(prev.val, 1) = 0)

Ended == pc \in {"done", "panic", "declined"}

\* C25: every run of init eventually ends, completed or aborted, whatever
\* the controller answers.
C25_Termination == <>Ended

\* C26: channel 2 is classified only when a second channel was recorded,
\* is_exists_port2 never goes back to false, and a classification, once
\* set, never changes.
C26_ClassificationGuarded ==
    /\ [](port2 # "None" => is_exists_port2)
    /\ [][ /\ is_exists_port2 => is_exists_port2'
           /\ port1 # "None" => port1' = port1
           /\ port2 # "None" => port2' = port2
           /\ port1' # port1 => pc = "L141"
           /\ port2' # port2 => pc = "L147" ]_vars

C26_Witness ==
    /\ pc = "done"
    /\ is_exists_port2
    /\ port1 = "StandardKeyboard"
    /\ port2 = "StandardMouse"

\* C24: a keyboard on channel 1 that answers identify with 0xFA, 0xAB, 0x83
\* is classified Standard-Keyboard whenever its bytes reach the output
\* buffer, and when get_dev_type has returned none of its reply bytes is
\* left unread.
C24_KeyboardUnderTiming ==
    (pc = "L142" /\ dev.acks # <<>> /\ dev.acks[Len(dev.acks)] = 250
       /\ dev.resp1 = 171) =>
      /\ port1 = "StandardKeyboard"
      /\ ctl.obuf = NoByte /\ ctl.pend = <<>>

\* C27: when init has completed, the shadow configuration byte equals the
\* controller's configuration byte.
C27_FinalConfigurationByte ==
    pc = "done" => config = ctl.ram

=============================================================================
